---- MODULE Spec2Model ----
(***************************************************************************)
(* terraform-profile (src/src/main.rs): a registry directory of profile    *)
(* files `<name>.tfrc.json` and one credentials path that the tool turns   *)
(* into a symbolic link to the selected profile.                           *)
(*                                                                         *)
(* File names and profile names are sequences of tokens.  The token SFX    *)
(* stands for the literal ".tfrc.json"; the other tokens are single        *)
(* letters, so that concatenating tokens never creates an occurrence of    *)
(* ".tfrc.json" that is not a token.  <<"a", SFX>> is "a.tfrc.json".       *)
(*                                                                         *)
(* A filesystem node is a record [kind, data, target]:                     *)
(*   nodir    the parent directory ~/.terraform.d does not exist           *)
(*   absent   nothing at the path                                          *)
(*   file     a plain file holding `data`                                  *)
(*   symlink  a symbolic link whose stored target is `target`              *)
(* A path is <<"reg", file name>> (inside the registry directory) or       *)
(* <<"ext", <<"file">>>> / <<"ext", <<"gone">>>> (an existing / a missing  *)
(* file outside the registry).                                             *)
(***************************************************************************)
EXTENDS Integers, Sequences, FiniteSets, TLC

VARIABLES
    project_dir,   \* ~/.terraform-profile: [exists, entries], entries in read_dir order
    credentials,   \* the node at ~/.terraform.d/credentials.tfrc.json
    last,          \* the last finished invocation: command, name, exit code, output, the registry it loaded
    after_switch,  \* history: the invocation before `last` was a successful `switch` of this name
    pc,            \* interleaved runs: the position of each invocation
    loaded,        \* interleaved runs: the registry each invocation loaded in main
    arg,           \* interleaved runs: the name argument of each invocation
    result         \* interleaved runs: exit code and output of each invocation

vars == <<project_dir, credentials, last, after_switch, pc, loaded, arg, result>>

\* ---------------------------------------------------------------- bounds
MaxFiles == 2      \* entries in the registry directory at the start
NumData == 2       \* distinct file contents

\* ---------------------------------------------------------------- names
SFX == ".tfrc.json"

SeqsUpTo(S, n) == UNION {[1..k -> S] : k \in 0..n}

\* the <name> argument of `switch <name>` and `import <name>`: three plain
\* names and one that contains the suffix ("a.tfrc.json")
Names == {<<"a">>, <<"b">>, <<"c">>, <<"a", SFX>>}

\* format!("{name}.tfrc.json")
profile_file_name(name) == Append(name, SFX)

\* file names the registry directory holds at the start: two profiles, a
\* name without the suffix, and a name with the suffix in the middle
FileNames == {<<"a", SFX>>, <<"b", SFX>>, <<"a">>, <<"a", SFX, "b">>}

Data == 1..NumData

\* ---------------------------------------------------------------- nodes
Absent == [kind |-> "absent", data |-> 0, target |-> <<"none", <<>>>>]
NoDir == [kind |-> "nodir", data |-> 0, target |-> <<"none", <<>>>>]
File(d) == [kind |-> "file", data |-> d, target |-> <<"none", <<>>>>]
Symlink(t) == [kind |-> "symlink", data |-> 0, target |-> t]

\* project_directory.join(file_name), DirEntry::path()
reg_path(fname) == <<"reg", fname>>

Targets == {reg_path(f) : f \in FileNames} \cup {<<"ext", <<"file">>>>, <<"ext", <<"gone">>>>}

Injective(s) == \A i, j \in DOMAIN s : i # j => s[i].name # s[j].name

\* does following the path reach an existing file
target_exists(pd, t) ==
    IF t[1] = "reg"
    THEN pd.exists /\ \E i \in DOMAIN pd.entries :
            pd.entries[i].name = t[2] /\ pd.entries[i].node.kind = "file"
    ELSE t = <<"ext", <<"file">>>>

\* Path::exists: follows symbolic links
exists(pd, cred) ==
    \/ cred.kind = "file"
    \/ cred.kind = "symlink" /\ target_exists(pd, cred.target)

\* Path::is_symlink: does not follow the link
is_symlink(cred) == cred.kind = "symlink"

remove_file_noop(cred) == [ok |-> TRUE, credentials |-> cred]

\* std::fs::remove_file
remove_file(cred) ==
    IF cred.kind \in {"file", "symlink"}
    THEN [ok |-> TRUE, credentials |-> Absent]
    ELSE [ok |-> FALSE, credentials |-> cred]

symlink_credentials_name(profile_path, cred) ==
    IF cred.kind = "absent"
    THEN [ok |-> TRUE, credentials |-> Symlink(<<"reg", SubSeq(profile_path[2], 1, Len(profile_path[2]) - 1)>>)]
    ELSE [ok |-> FALSE, credentials |-> cred]

\* std::os::unix::fs::symlink: fails when something is at the path (EEXIST)
\* or the parent directory is missing (ENOENT)
symlink_credentials(profile_path, cred) ==
    IF cred.kind = "absent"
    THEN [ok |-> TRUE, credentials |-> Symlink(profile_path)]
    ELSE [ok |-> FALSE, credentials |-> cred]


\* std::fs::rename(credentials_files, new_path): moves the node at the
\* credentials path into the registry directory, replacing an entry of the
\* same file name; fails when nothing is at the source path (ENOENT).  The
\* order in which read_dir lists the directory afterwards is unspecified:
\* every order is an outcome.
rename_keep_source(cred, pd, fname) ==
    IF cred.kind \in {"file", "symlink"}
    THEN LET kept == {pd.entries[i] : i \in {j \in DOMAIN pd.entries : pd.entries[j].name # fname}}
             after == kept \cup {[name |-> fname, node |-> cred]}
         IN  {[ok |-> TRUE, credentials |-> cred,
               project_dir |-> [exists |-> TRUE, entries |-> s]] :
                 s \in {t \in [1..Cardinality(after) -> after] : Injective(t)}}
    ELSE {[ok |-> FALSE, credentials |-> cred, project_dir |-> pd]}

rename(cred, pd, fname) ==
    IF cred.kind \in {"file", "symlink"}
    THEN LET kept == {pd.entries[i] : i \in {j \in DOMAIN pd.entries : pd.entries[j].name # fname}}
             after == kept \cup {[name |-> fname, node |-> cred]}
         IN  {[ok |-> TRUE, credentials |-> Absent,
               project_dir |-> [exists |-> TRUE, entries |-> s]] :
                 s \in {t \in [1..Cardinality(after) -> after] : Injective(t)}}
    ELSE {[ok |-> FALSE, credentials |-> cred, project_dir |-> pd]}

\* ---------------------------------------------------------------- registry
\* if !project_dir.exists() { create_dir }
initialize_folder(pd) == [exists |-> TRUE, entries |-> pd.entries]

\* str::split_once(".tfrc.json").0: the part before the FIRST occurrence
split_once(fname) ==
    LET hits == {i \in DOMAIN fname : fname[i] = SFX}
    IN  IF hits = {}
        THEN [some |-> FALSE, head |-> <<>>]
        ELSE [some |-> TRUE,
              head |-> SubSeq(fname, 1, (CHOOSE i \in hits : \A j \in hits : i <= j) - 1)]

\* HashMap::insert: a later insert of the same key replaces the value
insert(entries, key, value) ==
    [k \in DOMAIN entries \cup {key} |-> IF k = key THEN value ELSE entries[k]]

LoadErr == [ok |-> FALSE, profiles |-> <<>>]

RECURSIVE get_profiles_skip_loop(_, _, _)
get_profiles_skip_loop(files, i, entries) ==
    IF i > Len(files)
    THEN [ok |-> TRUE, profiles |-> entries]
    ELSE LET file_name == split_once(files[i].name)
         IN  IF ~file_name.some
             THEN get_profiles_skip_loop(files, i + 1, entries)
             ELSE get_profiles_skip_loop(files, i + 1,
                                         insert(entries, file_name.head, reg_path(files[i].name)))

get_profiles_skip(files) == get_profiles_skip_loop(files, 1, <<>>)

\* the loop of get_profiles from entry i on: the first entry whose name has
\* no ".tfrc.json" makes the whole load fail ("Couldn't split file name")
RECURSIVE get_profiles_loop(_, _, _)
get_profiles_loop(files, i, entries) ==
    IF i > Len(files)
    THEN [ok |-> TRUE, profiles |-> entries]
    ELSE LET file_name == split_once(files[i].name)
         IN  IF ~file_name.some
             THEN LoadErr
             ELSE get_profiles_loop(files, i + 1,
                                    insert(entries, file_name.head, reg_path(files[i].name)))

\* get_profiles, lines 58-78, on the read_dir listing of the directory
get_profiles(files) == get_profiles_loop(files, 1, <<>>)

get_profile_name_for_path_key(path, profiles) ==
    LET keys == {k \in DOMAIN profiles : reg_path(k) = path}
    IN  IF keys = {} THEN [some |-> FALSE, key |-> <<>>]
        ELSE [some |-> TRUE, key |-> CHOOSE k \in keys : TRUE]

\* the first key whose value equals the path; the values of a loaded
\* registry are pairwise different, so at most one key matches
get_profile_name_for_path(path, profiles) ==
    LET keys == {k \in DOMAIN profiles : profiles[k] = path}
    IN  IF keys = {} THEN [some |-> FALSE, key |-> <<>>]
        ELSE [some |-> TRUE, key |-> CHOOSE k \in keys : TRUE]

\* ---------------------------------------------------------------- handlers
Out(msg, names) == [msg |-> msg, names |-> names]

Done(pd, cred, exit, out) ==
    [project_dir |-> pd, credentials |-> cred, exit |-> exit, out |-> out]

switch_profile_late_lookup(pd, cred, profiles, name) ==
    IF exists(pd, cred)
    THEN IF is_symlink(cred)
         THEN LET removed == remove_file(cred)
              IN  IF name \notin DOMAIN profiles
                  THEN Done(pd, removed.credentials, 1, Out("unknown_profile", {}))
                  ELSE LET linked == symlink_credentials(profiles[name], removed.credentials)
                       IN  Done(pd, linked.credentials, 0, Out("switched", {}))
         ELSE Done(pd, cred, 1, Out("destructive", {}))
    ELSE IF name \notin DOMAIN profiles
         THEN Done(pd, cred, 1, Out("unknown_profile", {}))
         ELSE LET linked == symlink_credentials(profiles[name], cred)
              IN  IF linked.ok THEN Done(pd, linked.credentials, 0, Out("switched", {}))
                  ELSE Done(pd, linked.credentials, 1, Out("io_error", {}))

switch_profile_no_guard(pd, cred, profiles, name) ==
    IF name \notin DOMAIN profiles
    THEN Done(pd, cred, 1, Out("unknown_profile", {}))
    ELSE LET profile_path == profiles[name]
         IN  IF exists(pd, cred)
             THEN LET removed == remove_file(cred)
                      linked == symlink_credentials(profile_path, removed.credentials)
                  IN  IF linked.ok
                      THEN Done(pd, linked.credentials, 0, Out("switched", {}))
                      ELSE Done(pd, linked.credentials, 1, Out("io_error", {}))
             ELSE LET linked == symlink_credentials(profile_path, cred)
                  IN  IF linked.ok
                      THEN Done(pd, linked.credentials, 0, Out("switched", {}))
                      ELSE Done(pd, linked.credentials, 1, Out("io_error", {}))

\* switch_profile, lines 107-133
switch_profile(pd, cred, profiles, name) ==
    IF name \notin DOMAIN profiles
    THEN Done(pd, cred, 1, Out("unknown_profile", {}))
    ELSE LET profile_path == profiles[name]
         IN  IF exists(pd, cred)
             THEN IF is_symlink(cred)
                  THEN LET removed == remove_file(cred)
                       IN  IF ~removed.ok
                           THEN Done(pd, removed.credentials, 1, Out("io_error", {}))
                           ELSE LET linked == symlink_credentials(profile_path, removed.credentials)
                                IN  IF linked.ok
                                    THEN Done(pd, linked.credentials, 0, Out("switched", {}))
                                    ELSE Done(pd, linked.credentials, 1, Out("io_error", {}))
                  ELSE Done(pd, cred, 1, Out("destructive", {}))
             ELSE LET linked == symlink_credentials(profile_path, cred)
                  IN  IF linked.ok
                      THEN Done(pd, linked.credentials, 0, Out("switched", {}))
                      ELSE Done(pd, linked.credentials, 1, Out("io_error", {}))

import_profile_known_only(name, pd, cred, profiles) ==
    LET key == IF is_symlink(cred) THEN get_profile_name_for_path(cred.target, profiles)
               ELSE [some |-> FALSE, key |-> <<>>]
    IN  IF key.some
        THEN {Done(pd, cred, 1, Out("already_imported", {key.key}))}
        ELSE {IF r.ok THEN Done(r.project_dir, r.credentials, 0, Out("registered", {}))
                      ELSE Done(r.project_dir, r.credentials, 1, Out("io_error", {})) :
                 r \in rename(cred, pd, profile_file_name(name))}

\* import_profile, lines 148-171: the set of outcomes
import_profile(name, pd, cred, profiles) ==
    IF is_symlink(cred)
    THEN LET key == get_profile_name_for_path(cred.target, profiles)
         IN  IF key.some
             THEN {Done(pd, cred, 1, Out("already_imported", {key.key}))}
             ELSE {Done(pd, cred, 1, Out("unknown_link", {}))}
    ELSE {IF r.ok THEN Done(r.project_dir, r.credentials, 0, Out("registered", {}))
                  ELSE Done(r.project_dir, r.credentials, 1, Out("io_error", {})) :
             r \in rename(cred, pd, profile_file_name(name))}

\* show_profile_status, lines 187-206
show_profile_status(pd, cred, profiles) ==
    IF is_symlink(cred)
    THEN LET key == get_profile_name_for_path(cred.target, profiles)
         IN  IF key.some
             THEN Done(pd, cred, 0, Out("profile", {key.key}))
             ELSE Done(pd, cred, 1, Out("no_profile", {}))
    ELSE Done(pd, cred, 1, Out("no_profile", {}))

\* show_profiles_list, lines 209-219: the names printed, in no order
show_profiles_list(pd, cred, profiles) ==
    IF DOMAIN profiles = {}
    THEN Done(pd, cred, 1, Out("no_profiles", {}))
    ELSE Done(pd, cred, 0, Out("list", DOMAIN profiles))

\* main, lines 81-104: create the registry directory, load the registry,
\* dispatch; an Err from the load ends the process with exit code 1
main(pd, cred, cmd, name) ==
    LET dir == initialize_folder(pd)
        load == get_profiles(dir.entries)
        ran == IF ~load.ok THEN {Done(dir, cred, 1, Out("load_error", {}))}
               ELSE CASE cmd = "switch" -> {switch_profile(dir, cred, load.profiles, name)}
                      [] cmd = "import" -> import_profile(name, dir, cred, load.profiles)
                      [] cmd = "status" -> {show_profile_status(dir, cred, load.profiles)}
                      [] cmd = "list" -> {show_profiles_list(dir, cred, load.profiles)}
    IN  {[project_dir |-> r.project_dir, credentials |-> r.credentials,
          last |-> [cmd |-> cmd, name |-> name, exit |-> r.exit, out |-> r.out,
                    load_ok |-> load.ok, profiles |-> load.profiles]] : r \in ran}


\* ---------------------------------------------------------------- states
NoLast == [cmd |-> "none", name |-> <<>>, exit |-> 0, out |-> Out("", {}),
           load_ok |-> TRUE, profiles |-> <<>>]

NoSwitch == [some |-> FALSE, name |-> <<>>]

NoResult == [exit |-> -1, out |-> Out("", {})]

Procs == {"sw", "st"}

\* the listings of a registry directory: pairwise different file names
DirSeqs ==
    {s \in SeqsUpTo([name : FileNames, node : {File(d) : d \in Data}], MaxFiles) :
        Injective(s)}

\* every filesystem the tool can be started on
InitFs ==
    /\ project_dir \in {[exists |-> FALSE, entries |-> <<>>]}
                        \cup {[exists |-> TRUE, entries |-> s] : s \in DirSeqs}
    /\ credentials \in {NoDir, Absent} \cup {File(d) : d \in Data}
                        \cup {Symlink(t) : t \in Targets}

InitRun ==
    /\ last = NoLast
    /\ after_switch = NoSwitch
    /\ pc = [p \in Procs |-> "main"]
    /\ loaded = [p \in Procs |-> LoadErr]
    /\ arg = <<>>
    /\ result = [p \in Procs |-> NoResult]

Init == InitFs /\ InitRun

\* the state of the link as the tool sees it (resolve_active of the spec)
LinkState(pd, cred) ==
    LET load == get_profiles(pd.entries)
    IN  CASE cred.kind \in {"absent", "nodir"} -> "Absent"
          [] cred.kind = "file" -> "Foreign"
          [] OTHER -> IF load.ok /\ get_profile_name_for_path(cred.target, load.profiles).some
                      THEN "Active" ELSE "Unknown"

\* ---------------------------------------------------------------- one invocation after the other
\* the end of one run of the program: the filesystem it leaves, what it reported
Exit(r) ==
    /\ project_dir' = r.project_dir
    /\ credentials' = r.credentials
    /\ last' = r.last
    /\ after_switch' = IF last.cmd = "switch" /\ last.exit = 0
                       THEN [some |-> TRUE, name |-> last.name]
                       ELSE NoSwitch

\* `switch <name>`, from main to exit
Switch ==
    \E name \in Names : \E r \in main(project_dir, credentials, "switch", name) :
        /\ Exit(r)
        /\ UNCHANGED <<pc, loaded, arg, result>>

\* `import <name>`, from main to exit.  No run puts a plain file at the
\* credentials path, so a behaviour holds at most one successful import and
\* the directory grows by at most one entry: no cap is needed.
Import ==
    \E name \in Names : \E r \in main(project_dir, credentials, "import", name) :
        /\ Exit(r)
        /\ UNCHANGED <<pc, loaded, arg, result>>

\* `status`, from main to exit
Status ==
    \E r \in main(project_dir, credentials, "status", <<>>) :
        /\ Exit(r)
        /\ UNCHANGED <<pc, loaded, arg, result>>

\* `list`, from main to exit
List ==
    \E r \in main(project_dir, credentials, "list", <<>>) :
        /\ Exit(r)
        /\ UNCHANGED <<pc, loaded, arg, result>>

Next == Switch \/ Import \/ Status \/ List

Spec == Init /\ [][Next]_vars

\* the tool alone: started where the link is Absent, Foreign or Active
InitTool == Init /\ LinkState(project_dir, credentials) \in {"Absent", "Foreign", "Active"}

SpecTool == InitTool /\ [][Next]_vars

\* ---------------------------------------------------------------- a switch and a status at the same time
\* process "sw" runs `switch <name>`, process "st" runs `status`; every
\* filesystem call is one step
Finish(p, exit, out) ==
    /\ pc' = [pc EXCEPT ![p] = "done"]
    /\ result' = [result EXCEPT ![p] = [exit |-> exit, out |-> out]]

Goto(p, label) ==
    /\ pc' = [pc EXCEPT ![p] = label]
    /\ UNCHANGED result

\* main of the switch run, up to the lookup of lines 113-118
SwMain ==
    /\ pc["sw"] = "main"
    /\ \E name \in Names :
        LET dir == initialize_folder(project_dir)
            load == get_profiles(dir.entries)
        IN  /\ project_dir' = dir
            /\ loaded' = [loaded EXCEPT !["sw"] = load]
            /\ arg' = name
            /\ IF ~load.ok THEN Finish("sw", 1, Out("load_error", {}))
               ELSE IF name \notin DOMAIN load.profiles
                    THEN Finish("sw", 1, Out("unknown_profile", {}))
                    ELSE Goto("sw", "exists")
    /\ UNCHANGED <<credentials, last, after_switch>>

\* line 119
SwExists ==
    /\ pc["sw"] = "exists"
    /\ IF exists(project_dir, credentials)
       THEN Goto("sw", "is_symlink")
       ELSE Goto("sw", "symlink")
    /\ UNCHANGED <<project_dir, credentials, last, after_switch, loaded, arg>>

\* line 120, and lines 125-126
SwIsSymlink ==
    /\ pc["sw"] = "is_symlink"
    /\ IF is_symlink(credentials)
       THEN Goto("sw", "remove_file")
       ELSE Finish("sw", 1, Out("destructive", {}))
    /\ UNCHANGED <<project_dir, credentials, last, after_switch, loaded, arg>>

\* line 121
SwRemoveFile ==
    /\ pc["sw"] = "remove_file"
    /\ LET removed == remove_file(credentials)
       IN  /\ credentials' = removed.credentials
           /\ IF removed.ok
              THEN Goto("sw", "symlink_replace")
              ELSE Finish("sw", 1, Out("io_error", {}))
    /\ UNCHANGED <<project_dir, last, after_switch, loaded, arg>>

\* lines 122-123 (after the removal) and lines 129-130
SwSymlink ==
    /\ pc["sw"] \in {"symlink_replace", "symlink"}
    /\ LET linked == symlink_credentials(loaded["sw"].profiles[arg], credentials)
       IN  /\ credentials' = linked.credentials
           /\ IF linked.ok
              THEN Finish("sw", 0, Out("switched", {}))
              ELSE Finish("sw", 1, Out("io_error", {}))
    /\ UNCHANGED <<project_dir, last, after_switch, loaded, arg>>

\* main of the status run
StMain ==
    /\ pc["st"] = "main"
    /\ LET dir == initialize_folder(project_dir)
           load == get_profiles(dir.entries)
       IN  /\ project_dir' = dir
           /\ loaded' = [loaded EXCEPT !["st"] = load]
           /\ IF ~load.ok THEN Finish("st", 1, Out("load_error", {}))
              ELSE Goto("st", "is_symlink")
    /\ UNCHANGED <<credentials, last, after_switch, arg>>

\* line 192, and lines 202-203
StIsSymlink ==
    /\ pc["st"] = "is_symlink"
    /\ IF is_symlink(credentials)
       THEN Goto("st", "read_link")
       ELSE Finish("st", 1, Out("no_profile", {}))
    /\ UNCHANGED <<project_dir, credentials, last, after_switch, loaded, arg>>

\* lines 193-200: read_link fails when the link is gone by now
StReadLink ==
    /\ pc["st"] = "read_link"
    /\ IF credentials.kind = "symlink"
       THEN LET key == get_profile_name_for_path(credentials.target, loaded["st"].profiles)
            IN  IF key.some
                THEN Finish("st", 0, Out("profile", {key.key}))
                ELSE Finish("st", 1, Out("no_profile", {}))
       ELSE Finish("st", 1, Out("io_error", {}))
    /\ UNCHANGED <<project_dir, credentials, last, after_switch, loaded, arg>>

NextRace ==
    \/ SwMain \/ SwExists \/ SwIsSymlink \/ SwRemoveFile \/ SwSymlink
    \/ StMain \/ StIsSymlink \/ StReadLink

\* both runs start while a profile is active
InitRace == Init /\ LinkState(project_dir, credentials) = "Active"

SpecRace == InitRace /\ [][NextRace]_vars

\* ---------------------------------------------------------------- properties
\* the registry the next run of the program loads
Registry(pd) == get_profiles(initialize_folder(pd).entries)

KnownName(pd, name) == Registry(pd).ok /\ name \in DOMAIN Registry(pd).profiles

HasSfx(name) == \E i \in DOMAIN name : name[i] = SFX

\* C1: a Switch to a name of the Registry that reports success, followed at
\* once by Status, makes Status print exactly that name and exit 0; the link
\* Switch wrote is the path the reloaded Registry holds for the name.
C1_SwitchThenStatus ==
    [][(last.cmd = "switch" /\ last.exit = 0 /\ last'.cmd = "status")
         => /\ last'.exit = 0
            /\ last'.out = Out("profile", {last.name})
            /\ last'.load_ok
            /\ credentials = Symlink(last'.profiles[last.name])]_vars

C1_Witness ==
    /\ after_switch.some
    /\ last.cmd = "status"
    /\ last.exit = 0
    /\ last.out = Out("profile", {after_switch.name})
    /\ credentials.kind = "symlink"

\* C2: Switch with a name of the Registry while a plain file is at the
\* credentials path fails with the destructive-overwrite diagnostic and exit
\* code 1 and leaves the file and the Registry as they were.
C2_ForeignRefused ==
    [][(last'.cmd = "switch" /\ credentials.kind = "file"
            /\ KnownName(project_dir, last'.name))
         => /\ last'.exit = 1
            /\ last'.out = Out("destructive", {})
            /\ credentials' = credentials
            /\ project_dir' = project_dir]_vars

C2_Witness ==
    /\ last.cmd = "switch"
    /\ last.out = Out("destructive", {})
    /\ credentials.kind = "file"
    /\ KnownName(project_dir, last.name)

\* C3: Switch with a name that is not a key of the Registry fails with the
\* unknown-profile diagnostic and exit code 1 and leaves whatever is at the
\* credentials path as it was.
C3_UnknownNameKeepsLink ==
    [][(last'.cmd = "switch" /\ Registry(project_dir).ok
            /\ last'.name \notin DOMAIN Registry(project_dir).profiles)
         => /\ last'.exit = 1
            /\ last'.out = Out("unknown_profile", {})
            /\ credentials' = credentials]_vars

C3_Witness ==
    /\ last.cmd = "switch"
    /\ last.out = Out("unknown_profile", {})
    /\ LinkState(project_dir, credentials) = "Active"

\* what C4 promises of an Import of `name` that found the plain file `old`
\* at the credentials path: the file is now the entry <name>.tfrc.json,
\* nothing is left at the credentials path, the next load maps `name` to that
\* entry, and a Switch to `name` followed by Status reports `name`
Imported(name, old, pd, cred) ==
    LET reg == Registry(pd)
    IN  /\ cred = Absent
        /\ \E i \in DOMAIN pd.entries :
              pd.entries[i] = [name |-> profile_file_name(name), node |-> old]
        /\ reg.ok
        /\ name \in DOMAIN reg.profiles
        /\ reg.profiles[name] = reg_path(profile_file_name(name))
        /\ LET sw == switch_profile(pd, cred, reg.profiles, name)
           IN  /\ sw.exit = 0
               /\ show_profile_status(sw.project_dir, sw.credentials, reg.profiles).exit = 0
               /\ show_profile_status(sw.project_dir, sw.credentials, reg.profiles).out
                     = Out("profile", {name})

\* C4 as stated: Import(name) with a plain file at the credentials path
\* moves it into the Registry as <name>.tfrc.json, and the next invocation
\* finds `name` mapped to that file.
C4_AsStated ==
    [][(last'.cmd = "import" /\ credentials.kind = "file")
         => Imported(last'.name, credentials, project_dir', credentials')]_vars

\* no other entry of the directory yields the key `name`
NoOtherEntryFor(name, pd) ==
    \A i \in DOMAIN pd.entries :
        \/ pd.entries[i].name = profile_file_name(name)
        \/ split_once(pd.entries[i].name).head # name

\* C4 amended: when the Registry loads, `name` does not contain ".tfrc.json"
\* and no other entry of the Registry has `name` before its first
\* ".tfrc.json", Import(name) with a plain file at the credentials path
\* succeeds, moves the file into the Registry as <name>.tfrc.json, and the
\* next invocation finds `name` mapped to that file.
C4_ImportMoves ==
    [][(last'.cmd = "import" /\ credentials.kind = "file"
            /\ Registry(project_dir).ok
            /\ ~HasSfx(last'.name)
            /\ NoOtherEntryFor(last'.name, project_dir))
         => /\ last'.exit = 0
            /\ Imported(last'.name, credentials, project_dir', credentials')]_vars

C4_Witness ==
    /\ last.cmd = "import"
    /\ last.exit = 0
    /\ ~HasSfx(last.name)
    /\ credentials = Absent
    /\ KnownName(project_dir, last.name)
    /\ Registry(project_dir).profiles[last.name] = reg_path(profile_file_name(last.name))

\* C5: Import while a symbolic link is at the credentials path, whatever its
\* target, fails with exit code 1 and changes neither the link nor the
\* entries of the Registry directory.
C5_ImportOverLinkRefused ==
    [][(last'.cmd = "import" /\ credentials.kind = "symlink")
         => /\ last'.exit = 1
            /\ credentials' = credentials
            /\ project_dir'.entries = project_dir.entries]_vars

C5_Witness ==
    /\ last.cmd = "import"
    /\ last.out.msg \in {"already_imported", "unknown_link"}
    /\ credentials.kind = "symlink"
    /\ ~target_exists(project_dir, credentials.target)

\* C6: Switch to a name of the Registry succeeds whenever the credentials
\* path holds nothing or a symbolic link (also one whose target is missing):
\* afterwards the link points at the profile's path.
C6_SwitchFromAnyLink ==
    [][(last'.cmd = "switch" /\ credentials.kind \in {"absent", "symlink"}
            /\ KnownName(project_dir, last'.name))
         => /\ last'.exit = 0
            /\ credentials' = Symlink(Registry(project_dir).profiles[last'.name])
            /\ LinkState(project_dir', credentials') = "Active"]_vars

\* C7: an entry of the Registry keeps its name and its contents through every
\* invocation, also through an Import of a name the Registry already holds.
C7_EntriesKept ==
    [][\A i \in DOMAIN project_dir.entries :
          \E j \in DOMAIN project_dir'.entries :
              project_dir'.entries[j] = project_dir.entries[i]]_vars

\* the file name ends in ".tfrc.json"
EndsWithSfx(fname) == Len(fname) >= 1 /\ fname[Len(fname)] = SFX

\* the file name without its last token
StripSfx(fname) == SubSeq(fname, 1, Len(fname) - 1)

\* C8 as stated: the load never fails on the names of the directory, and its
\* keys are exactly the names that end in ".tfrc.json", with that suffix
\* stripped, each mapped to the path of its entry; other entries are skipped.
C8_AsStated ==
    [][last'.cmd # "none"
         => LET files == project_dir.entries
                good == {i \in DOMAIN files : EndsWithSfx(files[i].name)}
            IN  /\ last'.load_ok
                /\ DOMAIN last'.profiles = {StripSfx(files[i].name) : i \in good}
                /\ \A i \in good :
                      last'.profiles[StripSfx(files[i].name)] = reg_path(files[i].name)]_vars

\* C8 amended: the load succeeds exactly when every name of the directory
\* contains ".tfrc.json"; its keys are then exactly the parts of the names
\* before their first ".tfrc.json", each mapped to the path of the entry
\* listed last among those with that part.  When a name does not contain
\* ".tfrc.json" the load and the command fail with exit code 1 and nothing
\* at the credentials path or in the directory changes.
C8_LoadSplitsAtFirst ==
    [][last'.cmd # "none"
         => LET files == project_dir.entries
                head(i) == split_once(files[i].name).head
                all == \A i \in DOMAIN files : HasSfx(files[i].name)
            IN  /\ last'.load_ok <=> all
                /\ all => /\ DOMAIN last'.profiles = {head(i) : i \in DOMAIN files}
                          /\ \A i \in DOMAIN files :
                                (\A j \in DOMAIN files : j > i => head(j) # head(i))
                                   => last'.profiles[head(i)] = reg_path(files[i].name)
                /\ ~all => /\ last'.exit = 1
                           /\ last'.out = Out("load_error", {})
                           /\ credentials' = credentials
                           /\ project_dir'.entries = files]_vars

C8_Witness ==
    /\ last.cmd # "none"
    /\ ~last.load_ok
    /\ last.out = Out("load_error", {})
    /\ \E i \in DOMAIN project_dir.entries : ~HasSfx(project_dir.entries[i].name)
    /\ \E i \in DOMAIN project_dir.entries : EndsWithSfx(project_dir.entries[i].name)

\* C9: a Switch that replaces the link of an active profile removes it and
\* creates it in two steps; between them nothing is at the credentials path,
\* a Status that looks at the path then reports that no profile is in use
\* with exit code 1, and once the Switch has succeeded a profile is active
\* again.
C9_RaceWindow ==
    /\ [](pc["sw"] = "symlink_replace" => credentials = Absent)
    /\ [][(pc["sw"] = "symlink_replace" /\ pc["st"] = "is_symlink" /\ pc'["st"] # "is_symlink")
            => /\ pc'["st"] = "done"
               /\ result'["st"] = [exit |-> 1, out |-> Out("no_profile", {})]]_vars
    /\ []((pc["sw"] = "done" /\ result["sw"].exit = 0)
            => /\ credentials = Symlink(loaded["sw"].profiles[arg])
               /\ LinkState(project_dir, credentials) = "Active")

C9_Witness ==
    /\ pc["sw"] = "symlink_replace"
    /\ pc["st"] = "done"
    /\ result["st"] = [exit |-> 1, out |-> Out("no_profile", {})]
    /\ credentials = Absent

\* C10: started where the credentials path holds nothing, a plain file or the
\* link of an active profile, no sequence of invocations leaves a symbolic
\* link there whose target is not an entry of the Registry.
C10_LinkStaysManaged ==
    LinkState(project_dir, credentials) \in {"Absent", "Foreign", "Active"}

C10_Witness ==
    /\ last.cmd = "switch"
    /\ last.exit = 0
    /\ after_switch.some
    /\ after_switch.name # last.name
    /\ LinkState(project_dir, credentials) = "Active"

====
